---- MODULE Spec2Model ----
(***************************************************************************)
(* Toll-plaza dashboards of parthtodankar/npci-hackathon:                  *)
(*   lane.py        dynamic lane allocation and its efficiency estimate    *)
(*   pricing.py     quantile traffic levels and dynamic pricing            *)
(*   Geospatial.py  threshold congestion levels and nearby-plaza rerouting *)
(* Each dashboard is a separate program; each gets its own specification.  *)
(* Numbers that the code holds as floats are kept exact here: a quotient   *)
(* a/b is the pair [num |-> a, den |-> b] with den > 0, compared by cross  *)
(* multiplication.                                                         *)
(***************************************************************************)
EXTENDS Integers, Sequences, FiniteSets

VARIABLES
    pc,               \* position of the running dashboard script
    \* ---- lane.py
    north, south, total_lanes,      \* arguments of calculate_lane_allocation
    lanes,                          \* its return value (north_lanes, south_lanes)
    lane_df,                        \* rows of the CSV at the selected hour
    lane_loads,                     \* number of row batches read so far
    selected_plaza,
    north_traffic, south_traffic,   \* plaza_data.get('N', 0), plaza_data.get('S', 0)
    base_delay, optimized_delay, efficiency_gain,
    \* ---- the three data loaders
    loader,                         \* the dashboard whose loader runs
    initiated_time,                 \* one row's raw timestamp
    hour,                           \* the row's 'hour' column after loading
    \* ---- pricing.py
    price_df,                       \* rows per (merchant_name, hour)
    congestion,                     \* calculate_congestion's result
    st_error,                       \* messages shown by st.error
    surge_multiplier,               \* the slider's value, in tenths
    pricing_df,                     \* dynamic_price per (bucket, vehicle class), in tenths
    \* ---- Geospatial.py
    geo_df,                         \* the CSV's rows, as a bag
    geo_first,                      \* per plaza, the coordinates of its first row
    geo_loads,                      \* number of row batches read so far
    congestion_df,                  \* calculate_congestion's result
    geo_selected_plaza, radius, current_hour, current_location,
    nearby_plazas,
    alt_plazas,                     \* the recommendation table, top row first
    st_messages                     \* messages shown by st.error and st.warning

laneVars == <<north, south, total_lanes, lanes, lane_df, lane_loads, selected_plaza,
              north_traffic, south_traffic, base_delay, optimized_delay,
              efficiency_gain>>

loaderVars == <<loader, initiated_time, hour>>

priceVars == <<price_df, congestion, st_error, surge_multiplier, pricing_df>>

geoVars == <<geo_df, geo_first, geo_loads, congestion_df, geo_selected_plaza, radius,
             current_hour, current_location, nearby_plazas, alt_plazas, st_messages>>

vars == <<pc, laneVars, loaderVars, priceVars, geoVars>>

notLane == <<loaderVars, priceVars, geoVars>>
notLoader == <<laneVars, priceVars, geoVars>>
notPrice == <<laneVars, loaderVars, geoVars>>
notGeo == <<laneVars, loaderVars, priceVars>>

None == "None"

Max(a, b) == IF a >= b THEN a ELSE b

----------------------------------------------------------------------------
(* Bounds *)

MaxCount == 14      \* largest directional volume passed to the allocator
MaxLanes == 9       \* largest lane pool tried
MaxBatch == 13      \* largest number of equal rows read in one step
LaneMaxLoads == 2   \* row batches read by the lane dashboard
CongMaxLoads == 4   \* row batches read by a congestion run
GeoMaxLoads == 3    \* row batches read by the rerouting dashboard
MaxBucket == 4      \* largest number of rows per (plaza, hour) read by the pricing dashboard

(* Program constants *)

DefaultTotalLanes == 8     \* calculate_lane_allocation(..., total_lanes=8)
StaticLanes == 4           \* the divisor of base_delay

----------------------------------------------------------------------------
(* lane.py: calculate_lane_allocation *)

\* Python's round() on a non-negative quotient num/den: to the nearest integer,
\* a tie going to the even neighbour.  The float product north_ratio *
\* total_lanes rounds as the exact quotient does for every input within the
\* bounds above (they differ at 15/22 * 11, beyond them).
PyRound(num, den) ==
    LET f == num \div den
        r == num % den
    IN  IF 2 * r < den THEN f
        ELSE IF 2 * r > den THEN f + 1
        ELSE IF f % 2 = 0 THEN f ELSE f + 1

calculate_lane_allocation(n, s, tl) ==
    LET total == n + s
    IN  IF total = 0
        THEN <<tl \div 2, tl \div 2>>
        ELSE LET north_lanes == Max(1, PyRound(n * tl, total))
                 south_lanes == Max(1, tl - north_lanes)
             IN  <<north_lanes, south_lanes>>

\* One call of the allocator on arguments drawn by AllocInit.
Allocate ==
    /\ pc = "call"
    /\ lanes' = calculate_lane_allocation(north, south, total_lanes)
    /\ pc' = "returned"
    /\ UNCHANGED <<north, south, total_lanes, lane_df, lane_loads, selected_plaza,
                   north_traffic, south_traffic, base_delay, optimized_delay,
                   efficiency_gain, notLane>>

LoaderIdle ==
    /\ loader = None
    /\ initiated_time = None
    /\ hour = None

PriceIdle ==
    /\ price_df = <<>>
    /\ congestion = <<>>
    /\ st_error = {}
    /\ surge_multiplier = None
    /\ pricing_df = <<>>

GeoIdle ==
    /\ geo_df = <<>>
    /\ geo_first = <<>>
    /\ geo_loads = 0
    /\ congestion_df = <<>>
    /\ geo_selected_plaza = None
    /\ radius = None
    /\ current_hour = None
    /\ current_location = None
    /\ nearby_plazas = {}
    /\ alt_plazas = <<>>
    /\ st_messages = {}

AllocIdle ==
    /\ north = None
    /\ south = None
    /\ total_lanes = None
    /\ lanes = None

LaneIdle ==
    /\ lane_df = <<>>
    /\ lane_loads = 0
    /\ selected_plaza = None
    /\ north_traffic = None
    /\ south_traffic = None
    /\ base_delay = None
    /\ optimized_delay = None
    /\ efficiency_gain = None

AllocInit ==
    /\ pc = "call"
    /\ north \in 0..MaxCount
    /\ south \in 0..MaxCount
    /\ total_lanes \in 2..MaxLanes
    /\ lanes = None
    /\ LaneIdle
    /\ LoaderIdle
    /\ PriceIdle
    /\ GeoIdle

AllocNext == Allocate

SpecAlloc == AllocInit /\ [][AllocNext]_vars

\* C1: for north + south > 0 and total_lanes >= 2 the allocator returns at least
\* one lane per direction and the two allocations add up to total_lanes.
C1_LanesSumToPool ==
    (pc = "returned" /\ north + south > 0)
        => /\ lanes[1] >= 1
           /\ lanes[2] >= 1
           /\ lanes[1] + lanes[2] = total_lanes

----------------------------------------------------------------------------
(* lane.py: main *)

LanePlazas == {"A", "B"}
Directions == {"N", "S", "U"}      \* the direction codes of the CSV; U is any other code
LaneCells == LanePlazas \X Directions

\* hourly_counts = df[df['hour'] == selected_hour]
\*                   .groupby(['merchant_name', 'direction']).size().unstack(fill_value=0)
\* lane_df holds, per (merchant_name, direction), the number of rows at the selected
\* hour.  The index is the plazas with a row, the columns the directions with a row.
HourlyIndex(df) == {p \in LanePlazas : \E d \in Directions : df[<<p, d>>] > 0}
HourlyColumns(df) == {d \in Directions : \E p \in LanePlazas : df[<<p, d>>] > 0}

\* plaza_data.get(d, 0): the cell, a numpy int64, when column d exists, and the
\* Python int 0 otherwise.
PlazaGet(df, p, d) ==
    IF d \in HourlyColumns(df)
    THEN [val |-> df[<<p, d>>], np |-> TRUE]
    ELSE [val |-> 0, np |-> FALSE]

\* a/b > c/d for positive denominators
QGreater(a, b) == a.num * b.den > b.num * a.den

\* Python's max(a, b): b when b > a, and a otherwise (a on a tie).
PyMax(a, b) == IF QGreater(b, a) THEN b ELSE a

\* x / k for a count x = [val, np] and a Python int k: a numpy float when x is a
\* numpy int, a Python float otherwise.
Quot(x, k) == [num |-> x.val, den |-> k, np |-> x.np]

\* A baseline of two lanes per direction
BaseDelayTwoLanes(n, s) == PyMax(Quot(n, 2), Quot(s, 2))

\* base_delay = max(north_traffic/4, south_traffic/4)
BaseDelay(n, s) == PyMax(Quot(n, StaticLanes), Quot(s, StaticLanes))

\* optimized_delay = max(north_traffic/north_lanes, south_traffic/south_lanes)
OptimizedDelay(n, s, l) == PyMax(Quot(n, l[1]), Quot(s, l[2]))

\* efficiency_gain = ((base_delay - optimized_delay)/base_delay)*100
\* A zero divisor raises ZeroDivisionError between Python floats and gives nan
\* (with a RuntimeWarning) once a numpy float is involved.
EfficiencyGain(b, o) ==
    IF b.num = 0
    THEN IF b.np \/ o.np THEN [kind |-> "nan"] ELSE [kind |-> "ZeroDivisionError"]
    ELSE [kind |-> "value",
          num |-> 100 * (b.num * o.den - o.num * b.den),
          den |-> b.num * o.den]

\* pd.read_csv: k more rows of plaza p and direction d.
LaneLoadRows(p, d, k) ==
    /\ pc = "load"
    /\ lane_loads < LaneMaxLoads
    /\ lane_df' = [lane_df EXCEPT ![<<p, d>>] = @ + k]
    /\ lane_loads' = lane_loads + 1
    /\ UNCHANGED <<pc, north, south, total_lanes, lanes, selected_plaza, north_traffic,
                   south_traffic, base_delay, optimized_delay, efficiency_gain,
                   notLane>>

\* lines 63-77: the plaza chosen in the selectbox and its two directional counts.
\* (With no row at the selected hour the selectbox has no option; that run is not
\* modelled.)
LaneSelect(p) ==
    /\ pc = "load"
    /\ p \in HourlyIndex(lane_df)
    /\ selected_plaza' = p
    /\ north_traffic' = PlazaGet(lane_df, p, "N")
    /\ south_traffic' = PlazaGet(lane_df, p, "S")
    /\ pc' = "selected"
    /\ UNCHANGED <<north, south, total_lanes, lanes, lane_df, lane_loads, base_delay,
                   optimized_delay, efficiency_gain, notLane>>

\* line 92: calculate_lane_allocation(north_traffic, south_traffic)
LaneAllocate ==
    /\ pc = "selected"
    /\ north' = north_traffic.val
    /\ south' = south_traffic.val
    /\ total_lanes' = DefaultTotalLanes
    /\ lanes' = calculate_lane_allocation(north_traffic.val, south_traffic.val,
                                          DefaultTotalLanes)
    /\ pc' = "allocated"
    /\ UNCHANGED <<lane_df, lane_loads, selected_plaza, north_traffic, south_traffic,
                   base_delay, optimized_delay, efficiency_gain, notLane>>

\* lines 100-104
LaneEfficiency ==
    /\ pc = "allocated"
    /\ base_delay' = BaseDelay(north_traffic, south_traffic)
    /\ optimized_delay' = OptimizedDelay(north_traffic, south_traffic, lanes)
    /\ efficiency_gain' = EfficiencyGain(BaseDelay(north_traffic, south_traffic),
                                         OptimizedDelay(north_traffic, south_traffic, lanes))
    /\ pc' = IF EfficiencyGain(BaseDelay(north_traffic, south_traffic),
                               OptimizedDelay(north_traffic, south_traffic, lanes)).kind
                = "ZeroDivisionError"
             THEN "raised" ELSE "done"
    /\ UNCHANGED <<north, south, total_lanes, lanes, lane_df, lane_loads, selected_plaza,
                   north_traffic, south_traffic, notLane>>

LaneInit ==
    /\ pc = "load"
    /\ north = None
    /\ south = None
    /\ total_lanes = None
    /\ lanes = None
    /\ lane_df = [c \in LaneCells |-> 0]
    /\ lane_loads = 0
    /\ selected_plaza = None
    /\ north_traffic = None
    /\ south_traffic = None
    /\ base_delay = None
    /\ optimized_delay = None
    /\ efficiency_gain = None
    /\ LoaderIdle
    /\ PriceIdle
    /\ GeoIdle

LaneNext ==
    \/ \E p \in LanePlazas, d \in Directions, k \in 1..MaxBatch : LaneLoadRows(p, d, k)
    \/ \E p \in LanePlazas : LaneSelect(p)
    \/ LaneAllocate
    \/ LaneEfficiency

SpecLane == LaneInit /\ [][LaneNext]_vars

LaneFinished == pc \in {"done", "raised"}

\* C7: with base_delay = 0 the efficiency gain resolves to a fallback value; nothing
\* is raised and nothing is divided by zero.
C7_ZeroBaseFallsBack ==
    (LaneFinished /\ base_delay.num = 0)
        => /\ pc # "raised"
           /\ efficiency_gain.kind \notin {"ZeroDivisionError", "nan"}

\* C8 as stated: the baseline is max(north/2, south/2).
C8_BaselineTwoLanes ==
    (LaneFinished /\ north + south > 0)
        => base_delay.num * 2 = Max(north, south) * base_delay.den

\* C8 amended: the baseline is max(north/4, south/4), the optimized delay
\* max(north/north_lanes, south/south_lanes) over the allocator's lanes, and the gain
\* (base_delay - optimized_delay) / base_delay * 100.
C8_BaselineFourLanes ==
    (LaneFinished /\ north + south > 0)
        => /\ lanes = calculate_lane_allocation(north, south, DefaultTotalLanes)
           /\ base_delay.num * 4 = Max(north, south) * base_delay.den
           /\ optimized_delay.num * lanes[1] >= north * optimized_delay.den
           /\ optimized_delay.num * lanes[2] >= south * optimized_delay.den
           /\ \/ optimized_delay.num * lanes[1] = north * optimized_delay.den
              \/ optimized_delay.num * lanes[2] = south * optimized_delay.den
           /\ efficiency_gain.kind = "value"
           /\ efficiency_gain.num * base_delay.num * optimized_delay.den
                = 100 * (base_delay.num * optimized_delay.den
                         - optimized_delay.num * base_delay.den) * efficiency_gain.den

C8_Witness ==
    /\ pc = "done"
    /\ north = 3
    /\ south = 5
    /\ lanes = <<3, 5>>
    /\ efficiency_gain.kind = "value"
    /\ efficiency_gain.num * 5 = 100 * efficiency_gain.den

\* C10: with 8 lanes the optimized delay never exceeds the base delay, so the gain
\* shown is never negative.
C10_GainNeverNegative ==
    (LaneFinished /\ north + south > 0)
        => /\ ~QGreater(optimized_delay, base_delay)
           /\ efficiency_gain.kind = "value" => efficiency_gain.num >= 0

----------------------------------------------------------------------------
(* The data loaders: the 'hour' column each derives from 'initiated_time' *)

DayHours == 0..23

\* A raw timestamp, by what the parsers can tell of it: whether its date part is
\* a valid dd-mm-YYYY date, whether its last blank-separated token is a valid
\* HH:MM time, and that time's hour.  "31-02-2024 08:15" has a bad date and a good
\* time; "garbage" has neither.
Timestamps ==
    {[date_ok |-> d, time_ok |-> TRUE, hh |-> h] : d \in BOOLEAN, h \in DayHours}
    \cup {[date_ok |-> d, time_ok |-> FALSE, hh |-> 0] : d \in BOOLEAN}

WellFormed(x) == x.date_ok /\ x.time_ok

Hour(h) == [kind |-> "hour", h |-> h]
NaN == [kind |-> "nan"]
Raised(e) == [kind |-> "raised", error |-> e]

\* lane.py, parse_datetime(x) followed by .dt.hour: the whole string against
\* '%d-%m-%Y %H:%M', and on failure the last token alone behind a fixed date; a
\* failure of that second parse is not caught.
lane_parse_datetime(x) ==
    IF WellFormed(x) THEN Hour(x.hh)
    ELSE IF x.time_ok THEN Hour(x.hh)
    ELSE Raised("ValueError")

\* Geospatial.py: pd.to_datetime(errors='coerce'), then .dt.hour.fillna(-1).astype(int)
geo_parse_hour(x) ==
    IF WellFormed(x) THEN Hour(x.hh) ELSE Hour(-1)

\* pricing.py: pd.to_datetime(errors='coerce').dt.time, then the hour of that time;
\* a timestamp that does not parse stays missing.
pricing_parse_hour(x) ==
    IF WellFormed(x) THEN Hour(x.hh) ELSE NaN

LaneLoad ==
    /\ pc = "raw"
    /\ loader' = "lane"
    /\ hour' = lane_parse_datetime(initiated_time)
    /\ pc' = IF lane_parse_datetime(initiated_time).kind = "raised" THEN "raised" ELSE "loaded"
    /\ UNCHANGED <<initiated_time, notLoader>>

GeoLoad ==
    /\ pc = "raw"
    /\ loader' = "Geospatial"
    /\ hour' = geo_parse_hour(initiated_time)
    /\ pc' = "loaded"
    /\ UNCHANGED <<initiated_time, notLoader>>

PricingLoad ==
    /\ pc = "raw"
    /\ loader' = "pricing"
    /\ hour' = pricing_parse_hour(initiated_time)
    /\ pc' = "loaded"
    /\ UNCHANGED <<initiated_time, notLoader>>

LoaderInit ==
    /\ pc = "raw"
    /\ loader = None
    /\ initiated_time \in Timestamps
    /\ hour = None
    /\ AllocIdle
    /\ LaneIdle
    /\ PriceIdle
    /\ GeoIdle

LoaderNext == LaneLoad \/ GeoLoad \/ PricingLoad

SpecLoader == LoaderInit /\ [][LoaderNext]_vars

\* C9: every loader gives a row with a malformed timestamp the hour -1, and a row
\* with a well-formed timestamp its true hour.
C9_MalformedGetsSentinel ==
    (pc \in {"loaded", "raised"})
        => hour = IF WellFormed(initiated_time) THEN Hour(initiated_time.hh) ELSE Hour(-1)

----------------------------------------------------------------------------
(* pricing.py *)

PricePlazas == {"A", "B"}
PriceHours == {8, 9}
PriceKeys == PricePlazas \X PriceHours

\* base_prices, and .fillna(50) for a vehicle class the table does not list ("VCX")
VehicleClasses == {"VC4", "VC20", "VCX"}
base_price(vc) ==
    CASE vc = "VC4" -> 50
      [] vc = "VC20" -> 200
      [] OTHER -> 50

\* The slider of line 65, in tenths: 1.2 to 3.0, 1.8 by default.
SurgeChoices == {12, 18, 30}

\* df.groupby(['merchant_name', 'hour']).agg(traffic_count=('tag_id', 'count')):
\* one bucket per key that has rows.  price_df counts, per key, the rows read; every
\* row read by PriceLoadRow carries its tag_id.
TrafficCount(df) ==
    [b \in {c \in PriceKeys : df[c] > 0} |-> df[b]]

\* The i-th smallest (i from 0) of the traffic counts tc.
KthSmallest(tc, i) ==
    CHOOSE x \in {tc[b] : b \in DOMAIN tc} :
        /\ Cardinality({b \in DOMAIN tc : tc[b] < x}) <= i
        /\ i < Cardinality({b \in DOMAIN tc : tc[b] <= x})

\* Five times the k/5 quantile of the traffic counts, by linear interpolation
\* between the two order statistics around position k*(n-1)/5.
QuantileEdge(tc, k) ==
    LET n == Cardinality(DOMAIN tc)
        lo == (k * (n - 1)) \div 5
        fr == (k * (n - 1)) % 5
        hi == IF lo + 1 <= n - 1 THEN lo + 1 ELSE lo
    IN  5 * KthSmallest(tc, lo) + fr * (KthSmallest(tc, hi) - KthSmallest(tc, lo))

\* A qcut that accepts fewer bins than labels
QcutNeverRaises(tc) == FALSE

\* pd.qcut(traffic_count, q=5, labels=[1, 2, 3, 4, 5], duplicates='drop'): duplicate
\* edges are dropped, and the five labels then no longer fit the bins, which is a
\* ValueError.
QcutRaises(tc) == Cardinality({QuantileEdge(tc, k) : k \in 0..5}) < 6

\* The label of the bin (edge k-1, edge k] that x falls in; the first bin also
\* holds the lowest edge.
QcutLabel(tc, x) ==
    CHOOSE k \in 1..5 :
        /\ 5 * x <= QuantileEdge(tc, k)
        /\ \A j \in 1..5 : 5 * x <= QuantileEdge(tc, j) => k <= j

\* congestion['traffic_level'] = 3  # Fallback value
FallbackLevel == 3

\* lines 35-42
TrafficLevel(tc, b) ==
    IF QcutRaises(tc) THEN FallbackLevel ELSE QcutLabel(tc, tc[b])

pricing_calculate_congestion(df) ==
    LET tc == TrafficCount(df)
    IN  [b \in DOMAIN tc |->
            [traffic_count |-> tc[b], traffic_level |-> TrafficLevel(tc, b)]]

\* A rule whose surge starts above level 3
dynamic_pricing_above_3(base, traffic_level, surge) ==
    IF traffic_level = 5 THEN 0
    ELSE IF traffic_level > 3 THEN base * surge
    ELSE base * 10

\* dynamic_pricing(row, surge_multiplier), the price in tenths of a rupee
dynamic_pricing(base, traffic_level, surge) ==
    IF traffic_level = 5 THEN 0
    ELSE IF traffic_level >= 3 THEN base * surge
    ELSE base * 10

\* pd.read_csv: one more row of plaza p at hour h.
PriceLoadRow(p, h) ==
    /\ pc = "load"
    /\ price_df[<<p, h>>] < MaxBucket
    /\ price_df' = [price_df EXCEPT ![<<p, h>>] = @ + 1]
    /\ UNCHANGED <<pc, congestion, st_error, surge_multiplier, pricing_df, notPrice>>

\* line 60: congestion_df = calculate_congestion(df).  (An empty CSV is not
\* modelled.)
PriceClassify ==
    /\ pc = "load"
    /\ DOMAIN TrafficCount(price_df) # {}
    /\ congestion' = pricing_calculate_congestion(price_df)
    /\ st_error' = IF QcutRaises(TrafficCount(price_df))
                   THEN {"Quantile binning failed"} ELSE {}
    /\ pc' = "classified"
    /\ UNCHANGED <<price_df, surge_multiplier, pricing_df, notPrice>>

\* lines 65-78: the slider, the merge with every plaza's vehicle classes (each class
\* is taken to occur at each plaza) and dynamic_pricing applied to every row.
PriceApply(surge) ==
    /\ pc = "classified"
    /\ surge_multiplier' = surge
    /\ pricing_df' =
         [r \in (DOMAIN congestion) \X VehicleClasses |->
            [base_price |-> base_price(r[2]),
             traffic_level |-> congestion[r[1]].traffic_level,
             dynamic_price |-> dynamic_pricing(base_price(r[2]),
                                               congestion[r[1]].traffic_level, surge)]]
    /\ pc' = "priced"
    /\ UNCHANGED <<price_df, congestion, st_error, notPrice>>

PriceInit ==
    /\ pc = "load"
    /\ price_df = [c \in PriceKeys |-> 0]
    /\ congestion = <<>>
    /\ st_error = {}
    /\ surge_multiplier = None
    /\ pricing_df = <<>>
    /\ AllocIdle
    /\ LaneIdle
    /\ LoaderIdle
    /\ GeoIdle

PriceNext ==
    \/ \E p \in PricePlazas, h \in PriceHours : PriceLoadRow(p, h)
    \/ PriceClassify
    \/ \E surge \in SurgeChoices : PriceApply(surge)

SpecPricing == PriceInit /\ [][PriceNext]_vars

\* C3: the price is 0 at level 5, base_price * surge_multiplier at levels 3 and 4,
\* base_price at levels 1 and 2; it is fixed by (base_price, traffic_level,
\* surge_multiplier) and never negative.
C3_PricingRule ==
    pc = "priced" =>
        /\ \A r \in DOMAIN pricing_df :
            LET row == pricing_df[r]
            IN  /\ row.traffic_level \in 1..5
                /\ row.traffic_level = 5 => row.dynamic_price = 0
                /\ row.traffic_level \in {3, 4}
                     => row.dynamic_price = row.base_price * surge_multiplier
                /\ row.traffic_level \in {1, 2}
                     => row.dynamic_price = row.base_price * 10
                /\ row.dynamic_price >= 0
        /\ \A r1, r2 \in DOMAIN pricing_df :
            (/\ pricing_df[r1].base_price = pricing_df[r2].base_price
             /\ pricing_df[r1].traffic_level = pricing_df[r2].traffic_level)
                => pricing_df[r1].dynamic_price = pricing_df[r2].dynamic_price

C3_Witness ==
    /\ pc = "priced"
    /\ surge_multiplier = 18
    /\ \E r \in DOMAIN pricing_df :
        pricing_df[r] = [base_price |-> 200, traffic_level |-> 5, dynamic_price |-> 0]
    /\ \E r \in DOMAIN pricing_df :
        pricing_df[r] = [base_price |-> 200, traffic_level |-> 4, dynamic_price |-> 3600]
    /\ \E r \in DOMAIN pricing_df :
        pricing_df[r] = [base_price |-> 50, traffic_level |-> 2, dynamic_price |-> 500]
    /\ \E r \in DOMAIN pricing_df :
        pricing_df[r] = [base_price |-> 50, traffic_level |-> 1, dynamic_price |-> 500]

\* C6: when every bucket has the same traffic_count, every bucket gets level 3, a
\* message is shown, and calculate_congestion returns with every bucket present.
AllCountsEqual ==
    \A a, b \in PriceKeys : (price_df[a] > 0 /\ price_df[b] > 0) => price_df[a] = price_df[b]

C6_QuantileFallback ==
    (pc \in {"classified", "priced"} /\ AllCountsEqual)
        => /\ DOMAIN congestion = {c \in PriceKeys : price_df[c] > 0}
           /\ \A b \in DOMAIN congestion : congestion[b].traffic_level = 3
           /\ st_error # {}

C6_Witness ==
    /\ pc = "classified"
    /\ AllCountsEqual
    /\ Cardinality(DOMAIN congestion) = 3
    /\ \A b \in DOMAIN congestion : congestion[b].traffic_count = 2
    /\ \A b \in DOMAIN congestion : congestion[b].traffic_level = 3

----------------------------------------------------------------------------
(* Geospatial.py *)

GeoPlazas == {"A", "B", "C"}
PlazaOrder == <<"A", "B", "C">>          \* the plaza names in sorted order
GeoHours == {8, 9}
\* Plazas lie on one meridian; a coordinate is the distance in km from its foot.
Positions == {0, 1, 2}
RadiusChoices == {1, 2}                   \* the slider of line 60, in km

\* A CSV row: tag is whether the row carries a tag_id.
GeoRows == [merchant_name : GeoPlazas, hour : GeoHours, pos : Positions, tag : BOOLEAN]

RECURSIVE SumOver(_, _)
SumOver(S, df) ==
    IF S = {} THEN 0
    ELSE LET x == CHOOSE y \in S : TRUE
         IN  df[x] + SumOver(S \ {x}, df)

RowsOf(p, h) == {r \in GeoRows : r.merchant_name = p /\ r.hour = h}

\* Thresholds that include their bound
CongestionLevelInclusive(total_traffic) ==
    IF total_traffic >= 50 THEN "High"
    ELSE IF total_traffic >= 25 THEN "Medium"
    ELSE "Low"

\* np.where(total_traffic > 50, 'High', np.where(total_traffic > 25, 'Medium', 'Low'))
CongestionLevel(total_traffic) ==
    IF total_traffic > 50 THEN "High"
    ELSE IF total_traffic > 25 THEN "Medium"
    ELSE "Low"

\* df.groupby(['merchant_name', 'hour']).agg(total_traffic=('tag_id', 'count'), ...):
\* one bucket per key that has rows; 'count' counts the rows whose tag_id is present.
geo_calculate_congestion(df) ==
    LET keys == {k \in GeoPlazas \X GeoHours : SumOver(RowsOf(k[1], k[2]), df) > 0}
        total(k) == SumOver({r \in RowsOf(k[1], k[2]) : r.tag}, df)
    IN  [k \in keys |->
            [total_traffic |-> total(k), congestion_level |-> CongestionLevel(total(k))]]

\* haversine(a, b) for two points of the meridian
haversine(a, b) == IF a >= b THEN a - b ELSE b - a

\* A search that does not drop the selected plaza
NearbyPlazasWithSelected(df, origin, selected, r) ==
    {p \in GeoPlazas :
        \E row \in GeoRows :
            /\ df[row] > 0
            /\ row.merchant_name = p
            /\ haversine(origin, row.pos) <= r}

\* lines 75-81: the plazas other than the selected one with a row within the radius
NearbyPlazas(df, origin, selected, r) ==
    {p \in GeoPlazas :
        /\ p # selected
        /\ \E row \in GeoRows :
            /\ df[row] > 0
            /\ row.merchant_name = p
            /\ haversine(origin, row.pos) <= r}

\* A table that does not filter on the level
AltPlazasAnyLevel(cdf, nearby, h) ==
    LET Keep(p) == p \in nearby /\ <<p, h>> \in DOMAIN cdf
        kept == SelectSeq(PlazaOrder, Keep)
    IN  [i \in 1..Len(kept) |->
            [merchant_name |-> kept[i],
             total_traffic |-> cdf[<<kept[i], h>>].total_traffic,
             congestion_level |-> cdf[<<kept[i], h>>].congestion_level]]

\* lines 107-111: the rows of congestion_df, which are sorted by (merchant_name,
\* hour), that belong to a nearby plaza, to the current hour and to level Low
AltPlazas(cdf, nearby, h) ==
    LET Keep(p) ==
            /\ p \in nearby
            /\ <<p, h>> \in DOMAIN cdf
            /\ cdf[<<p, h>>].congestion_level = "Low"
        kept == SelectSeq(PlazaOrder, Keep)
    IN  [i \in 1..Len(kept) |->
            [merchant_name |-> kept[i],
             total_traffic |-> cdf[<<kept[i], h>>].total_traffic,
             congestion_level |-> cdf[<<kept[i], h>>].congestion_level]]

\* pd.read_csv: k more rows equal to row.  The first row of a plaza fixes the
\* coordinates that .iloc[0] reads for it.
ReadRows(row, k) ==
    /\ pc = "load"
    /\ geo_df' = [geo_df EXCEPT ![row] = @ + k]
    /\ geo_first' = [geo_first EXCEPT ![row.merchant_name] =
                        IF @ = {} THEN {row.pos} ELSE @]
    /\ geo_loads' = geo_loads + 1
    /\ UNCHANGED <<pc, congestion_df, geo_selected_plaza, radius, current_hour,
                   current_location, nearby_plazas, alt_plazas, st_messages, notGeo>>

\* calculate_congestion(df) on the rows read
CongClassify ==
    /\ pc = "load"
    /\ congestion_df' = geo_calculate_congestion(geo_df)
    /\ pc' = "classified"
    /\ UNCHANGED <<geo_df, geo_first, geo_loads, geo_selected_plaza, radius, current_hour,
                   current_location, nearby_plazas, alt_plazas, st_messages, notGeo>>

CongLoadRows(row, k) ==
    /\ geo_loads < CongMaxLoads
    /\ ReadRows(row, k)

GeoInit ==
    /\ pc = "load"
    /\ geo_df = [r \in GeoRows |-> 0]
    /\ geo_first = [p \in GeoPlazas |-> {}]
    /\ geo_loads = 0
    /\ congestion_df = <<>>
    /\ geo_selected_plaza = None
    /\ radius = None
    /\ current_hour = None
    /\ current_location = None
    /\ nearby_plazas = {}
    /\ alt_plazas = <<>>
    /\ st_messages = {}
    /\ AllocIdle
    /\ LaneIdle
    /\ LoaderIdle
    /\ PriceIdle

\* The rows the congestion runs read: two plazas at one place, with and without
\* tag_id, in runs whose sums reach 25, 26, 50 and 51.
CongRows == {r \in GeoRows : r.merchant_name \in {"A", "B"} /\ r.pos = 0}
CongBatches == {1, 25, 26}

CongNext ==
    \/ \E row \in CongRows, k \in CongBatches : CongLoadRows(row, k)
    \/ CongClassify

SpecCongestion == GeoInit /\ [][CongNext]_vars

LevelRank(l) == CASE l = "Low" -> 1 [] l = "Medium" -> 2 [] l = "High" -> 3

\* C2 as stated: a bucket's traffic_count is the number of rows of its plaza and
\* hour; the level is Low up to 25, Medium up to 50 and High above, and so
\* non-decreasing in the count.
C2_ThresholdsOnRowCount ==
    pc = "classified" =>
        \A k \in DOMAIN congestion_df :
            /\ congestion_df[k].total_traffic = SumOver(RowsOf(k[1], k[2]), geo_df)
            /\ congestion_df[k].total_traffic <= 25
                 => congestion_df[k].congestion_level = "Low"
            /\ (congestion_df[k].total_traffic > 25 /\ congestion_df[k].total_traffic <= 50)
                 => congestion_df[k].congestion_level = "Medium"
            /\ congestion_df[k].total_traffic > 50
                 => congestion_df[k].congestion_level = "High"

\* C2 amended: traffic_count is the number of rows of the bucket's plaza and hour
\* that carry a tag_id; the thresholds and the monotonicity hold as stated.
C2_ThresholdsOnTagCount ==
    pc = "classified" =>
        /\ DOMAIN congestion_df
             = {k \in GeoPlazas \X GeoHours : \E r \in RowsOf(k[1], k[2]) : geo_df[r] > 0}
        /\ \A k \in DOMAIN congestion_df :
            /\ congestion_df[k].total_traffic
                 = SumOver({r \in RowsOf(k[1], k[2]) : r.tag}, geo_df)
            /\ congestion_df[k].total_traffic <= 25
                 => congestion_df[k].congestion_level = "Low"
            /\ (congestion_df[k].total_traffic > 25 /\ congestion_df[k].total_traffic <= 50)
                 => congestion_df[k].congestion_level = "Medium"
            /\ congestion_df[k].total_traffic > 50
                 => congestion_df[k].congestion_level = "High"
        /\ \A k1, k2 \in DOMAIN congestion_df :
            congestion_df[k1].total_traffic <= congestion_df[k2].total_traffic
                => LevelRank(congestion_df[k1].congestion_level)
                     <= LevelRank(congestion_df[k2].congestion_level)

C2_Witness ==
    /\ pc = "classified"
    /\ \E k1, k2 \in DOMAIN congestion_df :
        /\ congestion_df[k1] = [total_traffic |-> 50, congestion_level |-> "Medium"]
        /\ congestion_df[k2] = [total_traffic |-> 51, congestion_level |-> "High"]

----------------------------------------------------------------------------
(* Geospatial.py: main *)

\* The rows the rerouting runs read, each with its tag_id: at hour 8 every plaza at
\* every place, in runs of 1 row (a Low bucket) or 26 rows (a Medium one); at hour 9
\* single rows at place 0.
MainRows == {r \in GeoRows : r.tag /\ (r.hour = 9 => r.pos = 0)}
MainBatches(row) == IF row.hour = 9 THEN {1} ELSE {1, 26}

GeoLoadRows(row, k) ==
    /\ geo_loads < GeoMaxLoads
    /\ ReadRows(row, k)

\* lines 47-49: nothing was read
GeoNoData ==
    /\ pc = "load"
    /\ \A r \in GeoRows : geo_df[r] = 0
    /\ congestion_df' = geo_calculate_congestion(geo_df)
    /\ st_messages' = {"No data available - please check your data source"}
    /\ pc' = "returned"
    /\ UNCHANGED <<geo_df, geo_first, geo_loads, geo_selected_plaza, radius, current_hour,
                   current_location, nearby_plazas, alt_plazas, notGeo>>

\* lines 44-120 on a CSV with rows: plaza p is selected, the radius is r and the
\* clock shows hour h.
GeoMain(p, r, h) ==
    /\ pc = "load"
    /\ geo_first[p] # {}
    /\ LET cdf == geo_calculate_congestion(geo_df)
           loc == CHOOSE x \in geo_first[p] : TRUE
           nearby == NearbyPlazas(geo_df, loc, p, r)
           alt == AltPlazas(cdf, nearby, h)
       IN  /\ congestion_df' = cdf
           /\ current_location' = loc
           /\ nearby_plazas' = nearby
           /\ alt_plazas' = alt
           /\ st_messages' =
                (IF <<p, h>> \in DOMAIN cdf THEN {}
                 ELSE {"No traffic data available for current hour"})
                \cup (IF alt = <<>>
                      THEN {"No less congested alternatives found within radius"}
                      ELSE {})
    /\ geo_selected_plaza' = p
    /\ radius' = r
    /\ current_hour' = h
    /\ pc' = "done"
    /\ UNCHANGED <<geo_df, geo_first, geo_loads, notGeo>>

GeoNext ==
    \/ \E row \in MainRows : \E k \in MainBatches(row) : GeoLoadRows(row, k)
    \/ GeoNoData
    \/ \E p \in GeoPlazas, r \in RadiusChoices, h \in GeoHours : GeoMain(p, r, h)

SpecGeo == GeoInit /\ [][GeoNext]_vars

\* The plazas listed in the recommendation table, top row first
AltNames == [i \in 1..Len(alt_plazas) |-> alt_plazas[i].merchant_name]

\* The distance from the origin to the nearest row of plaza p
PlazaDistance(p) ==
    CHOOSE d \in {haversine(current_location, x) : x \in Positions} :
        /\ \E r \in GeoRows : /\ geo_df[r] > 0
                              /\ r.merchant_name = p
                              /\ haversine(current_location, r.pos) = d
        /\ \A r \in GeoRows : (geo_df[r] > 0 /\ r.merchant_name = p)
                                 => d <= haversine(current_location, r.pos)

LowCandidates ==
    {p \in nearby_plazas :
        /\ <<p, current_hour>> \in DOMAIN congestion_df
        /\ congestion_df[<<p, current_hour>>].congestion_level = "Low"}

ListsExactlyLowCandidates ==
    /\ {AltNames[i] : i \in 1..Len(alt_plazas)} = LowCandidates
    /\ \A i, j \in 1..Len(alt_plazas) : i # j => AltNames[i] # AltNames[j]
    /\ LowCandidates = {} => alt_plazas = <<>>

PlazaRank(p) == CHOOSE i \in 1..Len(PlazaOrder) : PlazaOrder[i] = p

\* C4 as stated: the table lists exactly the nearby plazas whose bucket at the
\* current hour is Low, by ascending distance and then ascending traffic_count;
\* it is empty when there is none.
C4_OrderedByDistance ==
    pc = "done" =>
        /\ ListsExactlyLowCandidates
        /\ \A i \in 1..(Len(alt_plazas) - 1) :
            \/ PlazaDistance(AltNames[i]) < PlazaDistance(AltNames[i + 1])
            \/ /\ PlazaDistance(AltNames[i]) = PlazaDistance(AltNames[i + 1])
               /\ alt_plazas[i].total_traffic <= alt_plazas[i + 1].total_traffic

\* C4 amended: the table lists exactly those plazas, in ascending order of plaza
\* name (the order of calculate_congestion's buckets); it is empty, with a warning
\* and no error, when there is none.
C4_OrderedByName ==
    pc = "done" =>
        /\ ListsExactlyLowCandidates
        /\ \A i \in 1..(Len(alt_plazas) - 1) :
            PlazaRank(AltNames[i]) < PlazaRank(AltNames[i + 1])
        /\ \A i \in 1..Len(alt_plazas) :
            /\ alt_plazas[i].congestion_level = "Low"
            /\ alt_plazas[i].total_traffic
                 = congestion_df[<<AltNames[i], current_hour>>].total_traffic
        /\ LowCandidates = {}
             => "No less congested alternatives found within radius" \in st_messages

\* Two Low plazas are in reach of the origin; the nearer one is listed second.
C4_Witness ==
    /\ pc = "done"
    /\ geo_selected_plaza = "A"
    /\ nearby_plazas = {"B", "C"}
    /\ Len(alt_plazas) = 2
    /\ AltNames = <<"B", "C">>
    /\ PlazaDistance("C") < PlazaDistance("B")

\* C5: the nearby set never holds the selected plaza, and holds another plaza
\* exactly when one of its rows lies within the radius of the selected plaza's
\* coordinates (those of its first row).
C5_NearbyExcludesOrigin ==
    pc = "done" =>
        /\ geo_selected_plaza \notin nearby_plazas
        /\ \A p \in GeoPlazas \ {geo_selected_plaza} :
            p \in nearby_plazas
              <=> \E r \in GeoRows :
                    /\ geo_df[r] > 0
                    /\ r.merchant_name = p
                    /\ \E o \in geo_first[geo_selected_plaza] :
                         haversine(o, r.pos) <= radius

\* The origin has rows at two places, another plaza has a row at the origin's
\* place, and a third lies beyond the radius.
C5_Witness ==
    /\ pc = "done"
    /\ geo_selected_plaza = "A"
    /\ radius = 1
    /\ current_location = 0
    /\ \E r \in GeoRows : geo_df[r] > 0 /\ r.merchant_name = "A" /\ r.pos = 2
    /\ \E r \in GeoRows : geo_df[r] > 0 /\ r.merchant_name = "B" /\ r.pos = 0
    /\ nearby_plazas = {"B"}

====
